---- MODULE Spec2Model ----
(***************************************************************************)
(* Model of the docinfer metadata reconciliation pipeline:                 *)
(*   - services/ai_analyzer.py : analyze_content, _clean_filename,         *)
(*                               merge_ai_into_embedded, is_ollama_running,*)
(*                               is_model_available, is_ollama_available   *)
(*   - services/pdf_extractor.py : extract_embedded_metadata,              *)
(*                                 process_directory (batch mode)          *)
(*   - cli.py : _process_single_file (single-file mode)                    *)
(* Python strings are sequences of one-character strings; Python None is   *)
(* the model value None.                                                   *)
(***************************************************************************)
EXTENDS Integers, Sequences, FiniteSets, TLC

\* Python None for an Optional[str] / Optional[datetime] value: a sequence that is
\* no string of characters
None == <<"<none>">>

\* Python None where a list of strings is expected
NoList == <<None>>

\* Python None for an Optional record (AIMetadata, MetadataResult, ...)
NoRecord == [absent |-> TRUE]

VARIABLES
    \* _clean_filename applied to an arbitrary string
    raw_filename,       \* the input string
    cleaned,            \* _clean_filename(raw_filename)
    recleaned,          \* _clean_filename(cleaned)
    suggested,          \* analyze_content's suggested_filename for the raw value raw_filename
    \* keyword normalisation of analyze_content
    keywords,           \* the keywords the model returned
    kw_once,            \* after lines 105-109
    kw_twice,           \* after lines 105-109 applied to kw_once
    \* merge_ai_into_embedded
    embedded,           \* argument: EmbeddedMetadata
    ai_metadata,        \* argument: AIMetadata
    merged,             \* return value
    extracted_author,   \* local at return
    extracted_title,    \* local at return
    \* analyze_content
    text_len,           \* len(text) of the argument
    prompt_len,         \* len(text) as embedded in the prompt (after truncation)
    llm,                \* what structured_llm.invoke does: raises or returns a value
    a_pc,               \* position in analyze_content
    a_return,           \* its return value
    a_stderr,           \* what it has printed to sys.stderr
    \* the command line: cli._process_single_file, cli._process_directory and
    \* pdf_extractor.process_directory
    mode,               \* "single" (path is a file) or "batch" (path is a directory)
    skip_ai,            \* extraction_config.skip_ai (--no-ai)
    pdf_files,          \* the files, in find_pdfs order; a file is what it does when read
    pc,                 \* position in the handler
    idx,                \* 1-based position of pdf_file in pdf_files
    ai_available,       \* process_directory's ai_available / the single-file gate's result
    probe_calls,        \* calls of is_ollama_available so far
    text_calls,         \* calls of extract_text so far
    model_calls,        \* calls of analyze_content so far
    loc,                \* the locals of the current file's pipeline
    results,            \* results: list[MetadataResult] (single mode: the one result)
    errors,             \* errors: list[dict]
    progress,           \* advances sent to the progress bar
    batch_result,       \* the returned BatchResult
    exit_code,          \* the process exit code, None while running
    \* is_ollama_available, step by step
    p_model_name,       \* argument: model_name
    p_env,              \* what the first and the second subprocess.run would do
    p_count,            \* calls of subprocess.run so far
    p_running,          \* the value of is_ollama_running()
    p_return,           \* the return value
    p_pc,               \* position in is_ollama_available
    \* extract_embedded_metadata on a readable, non-encrypted document
    f_dates,            \* what reader.metadata holds for the two dates
    f_sources,          \* what reader.metadata holds for the fields read so far
    f_values,           \* get_metadata_field's return values so far
    f_creation_date,    \* local creation_date
    f_modification_date,\* local modification_date
    f_warnings,         \* local warnings
    f_embedded,         \* the EmbeddedMetadata built at lines 86-94
    f_pc                \* position in extract_embedded_metadata

fileVars == <<raw_filename, cleaned, recleaned, suggested>>
kwVars == <<keywords, kw_once, kw_twice>>
mergeVars == <<embedded, ai_metadata, merged, extracted_author, extracted_title>>
analyzeVars == <<text_len, prompt_len, llm, a_pc, a_return, a_stderr>>
cliVars == <<mode, skip_ai, pdf_files, pc, idx, ai_available, probe_calls, text_calls,
             model_calls, loc, results, errors, progress, batch_result, exit_code>>
probeVars == <<p_model_name, p_env, p_count, p_running, p_return, p_pc>>
fieldVars == <<f_dates, f_sources, f_values, f_creation_date, f_modification_date,
               f_warnings, f_embedded, f_pc>>
vars == <<fileVars, kwVars, mergeVars, analyzeVars,
                 cliVars, probeVars, fieldVars>>

(***************************************************************************)
(* Python str primitives used by the code.                                 *)
(***************************************************************************)
Lowers == <<"a","b","c","d","e","f","g","h","i","j","k","l","m",
            "n","o","p","q","r","s","t","u","v","w","x","y","z">>
Uppers == <<"A","B","C","D","E","F","G","H","I","J","K","L","M",
            "N","O","P","Q","R","S","T","U","V","W","X","Y","Z">>
Digits == {"0","1","2","3","4","5","6","7","8","9"}

Range(s) == {s[i] : i \in DOMAIN s}

IsLower(c) == c \in Range(Lowers)
IsUpper(c) == c \in Range(Uppers)
IsCased(c) == IsLower(c) \/ IsUpper(c)

LowerChar(c) ==
    IF IsUpper(c) THEN Lowers[CHOOSE i \in DOMAIN Uppers : Uppers[i] = c] ELSE c

UpperChar(c) ==
    IF IsLower(c) THEN Uppers[CHOOSE i \in DOMAIN Lowers : Lowers[i] = c] ELSE c

\* str.lower()
Lower(s) == [i \in DOMAIN s |-> LowerChar(s[i])]

\* str.startswith / str.endswith
StartsWith(s, p) == Len(s) >= Len(p) /\ SubSeq(s, 1, Len(p)) = p
EndsWith(s, p) == Len(s) >= Len(p) /\ SubSeq(s, Len(s) - Len(p) + 1, Len(s)) = p

\* p in s
Contains(s, p) == \E i \in 1..(Len(s) - Len(p) + 1) : SubSeq(s, i, i + Len(p) - 1) = p

\* str.replace(old, new) for a non-empty old: leftmost, non-overlapping
RECURSIVE Replace(_, _, _)
Replace(s, old, new) ==
    IF s = <<>> THEN <<>>
    ELSE IF StartsWith(s, old)
         THEN new \o Replace(SubSeq(s, Len(old) + 1, Len(s)), old, new)
         ELSE <<Head(s)>> \o Replace(Tail(s), old, new)

\* str.split(sep) for a one-character sep: a list of (possibly empty) strings
RECURSIVE Split(_, _)
Split(s, sep) ==
    IF ~(\E i \in DOMAIN s : s[i] = sep) THEN <<s>>
    ELSE LET i == CHOOSE k \in DOMAIN s : s[k] = sep /\ \A j \in 1..(k - 1) : s[j] # sep
         IN <<SubSeq(s, 1, i - 1)>> \o Split(SubSeq(s, i + 1, Len(s)), sep)

\* sep.join(parts)
RECURSIVE Join(_, _)
Join(parts, sep) ==
    IF parts = <<>> THEN <<>>
    ELSE IF Len(parts) = 1 THEN parts[1]
    ELSE parts[1] \o sep \o Join(Tail(parts), sep)

\* str.rstrip(c)
RECURSIVE RStrip(_, _)
RStrip(s, c) ==
    IF s # <<>> /\ s[Len(s)] = c THEN RStrip(SubSeq(s, 1, Len(s) - 1), c) ELSE s

\* str.isdigit(): non-empty and every character a digit
IsDigit(s) == s # <<>> /\ \A i \in DOMAIN s : s[i] \in Digits

\* str.title(): a cased character is upper-cased after an uncased one (or at the
\* start) and lower-cased after a cased one
Title(s) ==
    [i \in DOMAIN s |->
        IF i > 1 /\ IsCased(s[i - 1]) THEN LowerChar(s[i]) ELSE UpperChar(s[i])]

\* "".join(c for c in s if c in keep)
Filter(s, keep) == SelectSeq(s, LAMBDA c : c \in keep)

\* str.strip() is falsy/empty test: only blanks
IsBlank(s) == \A i \in DOMAIN s : s[i] = " "

DotPdf == <<".", "p", "d", "f">>

(***************************************************************************)
(* ai_analyzer._clean_filename                                             *)
(***************************************************************************)
\* valid_chars = set("abcdefghijklmnopqrstuvwxyz0123456789-.[]()")
valid_chars == Range(Lowers) \cup Digits \cup {"-", ".", "[", "]", "(", ")"}

\* filename.split("/")[-1].split("\\")[-1]
StripPathComponents(filename) ==
    LET a == Split(filename, "/")
        b == Split(a[Len(a)], "\\")
    IN b[Len(b)]

\* filename.replace(" ", "-").replace("_", "-")
HyphenateSeparators(filename) ==
    Replace(Replace(filename, <<" ">>, <<"-">>), <<"_">>, <<"-">>)

\* while "--" in filename: filename = filename.replace("--", "-")
RECURSIVE CollapseHyphens(_)
CollapseHyphens(filename) ==
    IF Contains(filename, <<"-", "-">>)
    THEN CollapseHyphens(Replace(filename, <<"-", "-">>, <<"-">>))
    ELSE filename

\* a stray "!" in the valid_chars literal
DropInvalidCharsStray(filename) == Filter(filename, valid_chars \cup {"!"})

\* "".join(c for c in filename if c in valid_chars)
DropInvalidChars(filename) == Filter(filename, valid_chars)

\* if not filename.endswith(".pdf"): filename = filename.rstrip(".") + ".pdf"
EnsurePdfExtension(filename) ==
    IF EndsWith(filename, DotPdf) THEN filename ELSE RStrip(filename, ".") \o DotPdf

clean_filename(filename) ==
    EnsurePdfExtension(
        DropInvalidChars(
            CollapseHyphens(
                Lower(
                    HyphenateSeparators(
                        StripPathComponents(filename))))))

\* analyze_content, lines 111-116: append ".pdf" if missing, then clean
NormalizeFilename(suggested_filename) ==
    clean_filename(IF EndsWith(suggested_filename, DotPdf)
                   THEN suggested_filename
                   ELSE suggested_filename \o DotPdf)

(***************************************************************************)
(* analyze_content: keyword normalisation (lines 104-109)                  *)
(***************************************************************************)
\* the prefix added without the startswith test
PrefixHashAlways(kw) == <<"#">> \o kw

\* kw if kw.startswith("#") else f"#{kw}"
PrefixHash(kw) == IF StartsWith(kw, <<"#">>) THEN kw ELSE <<"#">> \o kw

\* [kw.lower() for kw in [prefixed ...]]
NormalizeKeywords(kws) == [i \in DOMAIN kws |-> Lower(PrefixHash(kws[i]))]

(***************************************************************************)
(* merge_ai_into_embedded                                                  *)
(***************************************************************************)
\* the operands swapped: the AI-derived value wins when there is one
PyOrPreferAI(a, b) == IF b # None /\ b # <<>> THEN b ELSE a

\* Python "a or b" on Optional[str]: a when a is truthy (a non-empty string)
PyOr(a, b) == IF a # None /\ a # <<>> THEN a ELSE b

\* ai_metadata.suggested_filename.replace(".pdf", "").split("-")
FilenameParts(suggested_filename) == Split(Replace(suggested_filename, DotPdf, <<>>), "-")

\* parts[-1].isdigit() and len(parts[-1]) == 4
LastIsYear(parts) == IsDigit(parts[Len(parts)]) /\ Len(parts[Len(parts)]) = 4

\* lines 183-196
ExtractedAuthor(parts) ==
    IF Len(parts) >= 2
    THEN IF LastIsYear(parts)
         THEN IF Len(parts) >= 3 THEN parts[Len(parts) - 1] ELSE None
         ELSE parts[Len(parts)]
    ELSE None

\* lines 184, 198-201; "if extracted_author" is Python truthiness
ExtractedTitle(parts) ==
    LET author == ExtractedAuthor(parts)
    IN IF Len(parts) >= 2 /\ author # None /\ author # <<>> /\ Len(parts) > 2
       THEN LET title_parts == IF IsDigit(parts[Len(parts)])
                               THEN SubSeq(parts, 1, Len(parts) - 2)
                               ELSE SubSeq(parts, 1, Len(parts) - 1)
            IN Title(Join(title_parts, <<" ">>))
       ELSE None

\* a merge that builds the record from the three merged fields alone
merge_three_fields_only(emb, ai) ==
    LET parts == FilenameParts(ai.suggested_filename)
    IN [title             |-> PyOr(emb.title, ExtractedTitle(parts)),
        author            |-> PyOr(emb.author, ExtractedAuthor(parts)),
        subject           |-> PyOr(emb.subject, ai.category),
        creator           |-> None,
        producer          |-> None,
        creation_date     |-> None,
        modification_date |-> None]

\* lines 204-212
merge_ai_into_embedded(emb, ai) ==
    LET parts == FilenameParts(ai.suggested_filename)
    IN [title             |-> PyOr(emb.title, ExtractedTitle(parts)),
        author            |-> PyOr(emb.author, ExtractedAuthor(parts)),
        subject           |-> PyOr(emb.subject, ai.category),
        creator           |-> emb.creator,
        producer          |-> emb.producer,
        creation_date     |-> emb.creation_date,
        modification_date |-> emb.modification_date]

(***************************************************************************)
(* analyze_content                                                         *)
(***************************************************************************)
max_chars == 8000
\* len("\n\n[Text truncated...]")
TruncationMarkerLen == 21

\* lines 90-92: text[:max_chars] + marker when len(text) > max_chars
TruncatedLen(n) == IF n > max_chars THEN max_chars + TruncationMarkerLen ELSE n

\* lines 104-116 on an AIMetadata instance
NormalizeResult(r) ==
    [summary            |-> r.summary,
     keywords           |-> NormalizeKeywords(r.keywords),
     category           |-> r.category,
     suggested_filename |-> NormalizeFilename(r.suggested_filename)]

\* lines 103-120: the isinstance test and the two returns; a value that is no
\* AIMetadata instance is NoRecord here
PostProcess(value) == IF value = NoRecord THEN NoRecord ELSE NormalizeResult(value)

\* the whole call: the return value for an outcome of the model call (a model
\* call that returns or raises)
analyze_content(outcome) ==
    IF outcome.kind = "metadata" THEN PostProcess(outcome.value) ELSE NoRecord

\* the whole call: what lines 122-127 print for an outcome of the model call
AnalyzeDiagnostics(outcome) ==
    IF outcome.kind = "raise" THEN <<outcome.error>> ELSE <<>>

(***************************************************************************)
(* is_ollama_running, is_model_available, is_ollama_available              *)
(***************************************************************************)
\* what one subprocess.run(["ollama", "list"], timeout=5) can do: return code 0
\* with or without the model in stdout, a non-zero return code, FileNotFoundError,
\* TimeoutExpired
RunOutcomes == {"rc0_listed", "rc0_unlisted", "nonzero", "absent", "timeout"}

\* lines 17-25
is_ollama_running(run) == run \in {"rc0_listed", "rc0_unlisted"}

\* the model probe without the look into the listing
is_model_available_unlisted(run) == run \in {"rc0_listed", "rc0_unlisted"}

\* lines 37-52
is_model_available(run) == run = "rc0_listed"

\* line 64
is_ollama_available(run1, run2) == is_ollama_running(run1) /\ is_model_available(run2)

(***************************************************************************)
(* pdf_extractor.process_directory and cli helpers                         *)
(***************************************************************************)
\* ExtractionConfig.max_pages default
max_pages == 10

\* ExtractionConfig.timeout_seconds default; the field is read nowhere
timeout_seconds == 120

Min(a, b) == IF a < b THEN a ELSE b

\* extract_text's second result: min(len(reader.pages), max_pages)
PagesToRead(page_count) == Min(page_count, max_pages)

\* MetadataResult(...)
MetadataResult(file, l, ai) ==
    [file |-> file, page_count |-> l.page_count, pages_analyzed |-> l.pages_analyzed,
     embedded |-> l.embedded, ai_generated |-> ai, warnings |-> l.warnings]

\* pdf_extractor lines 209-212 / cli lines 161-164: merge only when ai_metadata
MergeIfPresent(result) ==
    IF result.ai_generated # NoRecord
    THEN [result EXCEPT !.embedded = merge_ai_into_embedded(@, result.ai_generated)]
    ELSE result

\* the handler forgets the failed file
RecordErrorDropped(errs, file, e) == errs

\* pdf_extractor line 217: errors.append({"file": str(pdf_file), "error": str(e)})
RecordError(errs, file, e) == Append(errs, [file |-> file, error |-> e])

\* total_files counted from the successes only
BatchResultOfSuccesses(files, res, errs) ==
    [total_files |-> Len(res), successful |-> Len(res), failed |-> Len(errs),
     results |-> res, errors |-> errs]

\* pdf_extractor lines 221-228
BatchResult(files, res, errs) ==
    [total_files |-> Len(files), successful |-> Len(res), failed |-> Len(errs),
     results |-> res, errors |-> errs]

(***************************************************************************)
(* Bounds and input domains                                                *)
(***************************************************************************)
MaxTokens == 3
MaxKeywords == 2
MaxParts == 3
MaxFiles == 3

RECURSIVE Concat(_)
Concat(ss) == IF ss = <<>> THEN <<>> ELSE Head(ss) \o Concat(Tail(ss))

\* building blocks of the filenames a model may return
Tokens == {<<"a">>, <<"B">>, <<"1">>, <<"-">>, <<"!">>, <<" ">>, <<"_">>, <<"[">>,
           <<"/">>, <<"\\">>, <<".">>, DotPdf}

RawFilenames == {Concat(ts) : ts \in UNION {[1..k -> Tokens] : k \in 0..MaxTokens}}

KeywordSamples == {<<>>, <<"#">>, <<"a", "b">>, <<"#", "a", "b">>, <<"A", "b">>,
                   <<"#", "A">>, <<"a", " ", "b">>, <<"a", "!">>, <<"a", "1">>}

KeywordLists == UNION {[1..k -> KeywordSamples] : k \in 0..MaxKeywords}

\* hyphen-separated parts of cleaned filenames "part-part-...-part.pdf"
PartSamples == {<<"a", "b">>, <<"g">>, <<"2", "0", "1", "3">>, <<"1", "2">>,
                <<"s", ".", "p", "d", "f">>}

MergeFilenames ==
    {Join(ps, <<"-">>) \o DotPdf : ps \in UNION {[1..k -> PartSamples] : k \in 1..MaxParts}}

TextSamples == {None, <<>>, <<"T">>}

PassThrough ==
    {[creator |-> None, producer |-> None, creation_date |-> None,
      modification_date |-> None],
     [creator |-> <<"W">>, producer |-> <<"P">>, creation_date |-> <<"D1">>,
      modification_date |-> <<"D2">>]}

EmbeddedRecords ==
    {[title |-> t, author |-> a, subject |-> s, creator |-> p.creator,
      producer |-> p.producer, creation_date |-> p.creation_date,
      modification_date |-> p.modification_date] :
        t \in TextSamples, a \in TextSamples, s \in TextSamples, p \in PassThrough}

EmptyEmbedded ==
    [title |-> None, author |-> None, subject |-> None, creator |-> None,
     producer |-> None, creation_date |-> None, modification_date |-> None]

SampleAI ==
    [summary |-> <<"s">>, keywords |-> <<>>, category |-> <<"c">>,
     suggested_filename |-> DotPdf]

RawAIRecords ==
    {[summary |-> <<"s">>, keywords |-> ks, category |-> <<"c">>,
      suggested_filename |-> f] :
        ks \in {<<>>, << <<"A", "b">> >>, << <<"#", "a", "b">>, <<>> >>},
        f \in {<<>>, <<"A", " ", "b">>, <<"a", "b", "-", "g">> \o DotPdf,
               <<"/", "x", "-", "!", "-", "y">>}}

\* what structured_llm.invoke(messages) can do: raise (import, backend, output
\* parsing, timeout), return a value that is no AIMetadata, return an AIMetadata,
\* or never return (a backend that accepts the request and never answers: no
\* timeout is passed to ChatOllama or to invoke)
LLMOutcomes ==
    {[kind |-> "raise", error |-> e, value |-> NoRecord] :
        e \in {"ImportError", "ConnectionError", "OutputParserException", "TimeoutError"}}
    \cup {[kind |-> "other", error |-> "", value |-> NoRecord]}
    \cup {[kind |-> "hang", error |-> "", value |-> NoRecord]}
    \cup {[kind |-> "metadata", error |-> "", value |-> r] : r \in RawAIRecords}

TextLens == {1, max_chars - 1, max_chars, max_chars + 1}

NoOutcome == [kind |-> "pending", error |-> "", value |-> NoRecord]

\* the embedded properties of the sample documents
MetaSamples ==
    {EmptyEmbedded,
     [title |-> <<"T">>, author |-> None, subject |-> <<>>, creator |-> <<"W">>,
      producer |-> <<"P">>, creation_date |-> <<"D1">>, modification_date |-> None],
     [title |-> None, author |-> <<"A">>, subject |-> None, creator |-> None,
      producer |-> None, creation_date |-> None, modification_date |-> <<"D2">>]}

\* a file on disk, by what reading it does: extract_embedded_metadata returns
\* (embed "ok", with the properties meta) or raises; extract_text returns text,
\* returns only blanks, or raises
FileKinds ==
    {[embed |-> "ok", text |-> t, meta |-> m] :
        t \in {"text", "blank", "raise"}, m \in MetaSamples}
    \cup {[embed |-> "ValueError", text |-> "raise", meta |-> EmptyEmbedded]}

\* the documents' page count: more pages than max_pages
SamplePages == max_pages + 2

SampleText == <<"t", "x", "t">>
BlankText == <<" ">>

\* the model-call outcomes tried per file
PipelineOutcomes ==
    {o \in LLMOutcomes :
        /\ o.kind = "raise" => o.error = "ConnectionError"
        /\ o.kind = "metadata" =>
               /\ o.value.keywords = << <<"A", "b">> >>
               /\ o.value.suggested_filename = <<"a", "b", "-", "g">> \o DotPdf}

(***************************************************************************)
(* SpecFilename: _clean_filename and the filename normalisation                *)
(***************************************************************************)
FileIdle == /\ raw_filename = <<>> /\ cleaned = None /\ recleaned = None /\ suggested = None
KwIdle == /\ keywords = <<>> /\ kw_once = NoList /\ kw_twice = NoList
MergeIdle ==
    /\ embedded = EmptyEmbedded /\ ai_metadata = SampleAI /\ merged = NoRecord
    /\ extracted_author = None /\ extracted_title = None

AnalyzeIdle ==
    /\ text_len = 0 /\ prompt_len = 0 /\ llm = NoOutcome /\ a_pc = "idle"
    /\ a_return = NoRecord /\ a_stderr = <<>>

NoLoc ==
    [embedded |-> EmptyEmbedded, page_count |-> 0, warnings |-> <<>>,
     text_content |-> <<>>, pages_analyzed |-> 0]

CliIdle ==
    /\ mode = "idle" /\ skip_ai = FALSE /\ pdf_files = <<>> /\ pc = "idle" /\ idx = 0
    /\ ai_available = FALSE /\ probe_calls = 0 /\ text_calls = 0 /\ model_calls = 0
    /\ loc = NoLoc /\ results = <<>> /\ errors = <<>> /\ progress = 0
    /\ batch_result = NoRecord /\ exit_code = None

ProbeIdle ==
    /\ p_model_name = <<>> /\ p_env = <<>> /\ p_count = 0 /\ p_running = FALSE
    /\ p_return = FALSE /\ p_pc = "idle"

FieldIdle ==
    /\ f_dates = <<>> /\ f_sources = <<>> /\ f_values = <<>>
    /\ f_creation_date = None /\ f_modification_date = None /\ f_warnings = <<>>
    /\ f_embedded = NoRecord /\ f_pc = "idle"

InitFilename ==
    /\ raw_filename \in RawFilenames
    /\ cleaned = None /\ recleaned = None /\ suggested = None
    /\ KwIdle /\ MergeIdle /\ AnalyzeIdle /\ CliIdle /\ ProbeIdle /\ FieldIdle

CleanFilename ==
    /\ cleaned = None
    /\ cleaned' = clean_filename(raw_filename)
    /\ UNCHANGED <<raw_filename, recleaned, suggested, kwVars, mergeVars, analyzeVars,
                 cliVars, probeVars, fieldVars>>

CleanAgain ==
    /\ cleaned # None /\ recleaned = None
    /\ recleaned' = clean_filename(cleaned)
    /\ UNCHANGED <<raw_filename, cleaned, suggested, kwVars, mergeVars, analyzeVars,
                 cliVars, probeVars, fieldVars>>

SuggestFilename ==
    /\ suggested = None
    /\ suggested' = NormalizeFilename(raw_filename)
    /\ UNCHANGED <<raw_filename, cleaned, recleaned, kwVars, mergeVars, analyzeVars,
                 cliVars, probeVars, fieldVars>>

NextFilename == CleanFilename \/ CleanAgain \/ SuggestFilename

SpecFilename == InitFilename /\ [][NextFilename]_vars

(***************************************************************************)
(* SpecKeywords: the keyword normalisation                                 *)
(***************************************************************************)
InitKeywords ==
    /\ keywords \in KeywordLists
    /\ kw_once = NoList /\ kw_twice = NoList
    /\ FileIdle /\ MergeIdle /\ AnalyzeIdle /\ CliIdle /\ ProbeIdle /\ FieldIdle

NormalizeOnce ==
    /\ kw_once = NoList
    /\ kw_once' = NormalizeKeywords(keywords)
    /\ UNCHANGED <<keywords, kw_twice, fileVars, mergeVars, analyzeVars,
                 cliVars, probeVars, fieldVars>>

NormalizeTwice ==
    /\ kw_once # NoList /\ kw_twice = NoList
    /\ kw_twice' = NormalizeKeywords(kw_once)
    /\ UNCHANGED <<keywords, kw_once, fileVars, mergeVars, analyzeVars,
                 cliVars, probeVars, fieldVars>>

NextKeywords == NormalizeOnce \/ NormalizeTwice

SpecKeywords == InitKeywords /\ [][NextKeywords]_vars

(***************************************************************************)
(* SpecMerge: merge_ai_into_embedded                                       *)
(***************************************************************************)
InitMerge ==
    /\ embedded \in EmbeddedRecords
    /\ ai_metadata \in {[summary |-> <<"s">>, keywords |-> <<>>, category |-> <<"c">>,
                         suggested_filename |-> f] : f \in MergeFilenames}
    /\ merged = NoRecord /\ extracted_author = None /\ extracted_title = None
    /\ FileIdle /\ KwIdle /\ AnalyzeIdle /\ CliIdle /\ ProbeIdle /\ FieldIdle

Merge ==
    /\ merged = NoRecord
    /\ merged' = merge_ai_into_embedded(embedded, ai_metadata)
    /\ extracted_author' = ExtractedAuthor(FilenameParts(ai_metadata.suggested_filename))
    /\ extracted_title' = ExtractedTitle(FilenameParts(ai_metadata.suggested_filename))
    /\ UNCHANGED <<embedded, ai_metadata, fileVars, kwVars, analyzeVars,
                 cliVars, probeVars, fieldVars>>

NextMerge == Merge

SpecMerge == InitMerge /\ [][NextMerge]_vars

(***************************************************************************)
(* SpecAnalyze: analyze_content, step by step                              *)
(***************************************************************************)
InitAnalyze ==
    /\ text_len \in TextLens
    /\ prompt_len = 0 /\ llm = NoOutcome /\ a_pc = "start"
    /\ a_return = NoRecord /\ a_stderr = <<>>
    /\ FileIdle /\ KwIdle /\ MergeIdle /\ CliIdle /\ ProbeIdle /\ FieldIdle

\* lines 78-101: import, build the model, truncate, invoke; an exception goes to
\* the handler
AnalyzeInvoke ==
    /\ a_pc = "start"
    /\ \E o \in LLMOutcomes :
           /\ llm' = o
           /\ prompt_len' = IF o.kind = "raise" /\ o.error = "ImportError"
                            THEN 0 ELSE TruncatedLen(text_len)
           /\ a_pc' = CASE o.kind = "raise" -> "except"
                         [] o.kind = "hang" -> "blocked"
                         [] OTHER -> "invoked"
    /\ UNCHANGED <<text_len, a_return, a_stderr, fileVars, kwVars, mergeVars,
                 cliVars, probeVars, fieldVars>>

\* lines 103-120
AnalyzePostProcess ==
    /\ a_pc = "invoked"
    /\ a_return' = PostProcess(llm.value)
    /\ a_pc' = "returned"
    /\ UNCHANGED <<text_len, prompt_len, llm, a_stderr, fileVars, kwVars, mergeVars,
                 cliVars, probeVars, fieldVars>>

\* lines 122-127
AnalyzeExcept ==
    /\ a_pc = "except"
    /\ a_stderr' = a_stderr \o AnalyzeDiagnostics(llm)
    /\ a_return' = NoRecord
    /\ a_pc' = "returned"
    /\ UNCHANGED <<text_len, prompt_len, llm, fileVars, kwVars, mergeVars,
                 cliVars, probeVars, fieldVars>>

NextAnalyze == AnalyzeInvoke \/ AnalyzePostProcess \/ AnalyzeExcept

SpecAnalyze == InitAnalyze /\ [][NextAnalyze]_vars

\* C10: analyze_content never raises; every failure of the call (an exception or
\* a result that is no AIMetadata) returns none and records a diagnostic; a
\* record is returned only for a conforming result, and it is normalised.
C10_FailureIsNoneWithDiagnostic ==
    a_pc = "returned" =>
        /\ llm.kind # "metadata" => a_return = NoRecord /\ a_stderr # <<>>
        /\ a_return # NoRecord =>
               /\ llm.kind = "metadata"
               /\ a_return.keywords = NormalizeKeywords(a_return.keywords)
               /\ EndsWith(a_return.suggested_filename, DotPdf)
               /\ Range(a_return.suggested_filename) \subseteq valid_chars

(***************************************************************************)
(* Claims about merge_ai_into_embedded (SpecMerge)                         *)
(***************************************************************************)
MergeFields == {"title", "author", "subject"}

AIDerived(f) ==
    CASE f = "title" -> extracted_title
      [] f = "author" -> extracted_author
      [] f = "subject" -> ai_metadata.category

\* C4 as stated: every embedded title/author/subject that is not none, an empty
\* string included, is unchanged by the merge.
C4_NeverOverwritesPresent ==
    merged # NoRecord =>
        \A f \in MergeFields : embedded[f] # None => merged[f] = embedded[f]

\* C4 amended: every non-empty embedded title/author/subject is unchanged by the
\* merge; a field changes only when the embedded value is none or the empty
\* string, and then it takes the AI-derived value.
C4_NeverOverwritesNonEmpty ==
    merged # NoRecord =>
        \A f \in MergeFields :
            /\ embedded[f] \notin {None, <<>>} => merged[f] = embedded[f]
            /\ merged[f] # embedded[f] =>
                   embedded[f] \in {None, <<>>} /\ merged[f] = AIDerived(f)

C4_Witness ==
    /\ merged # NoRecord
    /\ embedded.title = <<"T">> /\ extracted_title \notin {None, <<"T">>}
    /\ merged.title = <<"T">>
    /\ embedded.author = None /\ merged.author = extracted_author
    /\ extracted_author \notin {None, <<>>}

\* the claim's reading of the parsing: strip the ".pdf" suffix, split on "-"
StripPdfSuffix(s) == IF EndsWith(s, DotPdf) THEN SubSeq(s, 1, Len(s) - Len(DotPdf)) ELSE s

SuffixStrippedParts(s) == Split(StripPdfSuffix(s), "-")

IsFourDigits(s) == Len(s) = 4 /\ \A i \in DOMAIN s : s[i] \in Digits

\* C8: with the parts of the suffix-stripped filename, fewer than 2 parts give no
\* author; a 4-digit last part gives the second-to-last part when there are at
\* least 3 parts (else none); otherwise the author is the last part.
C8_AuthorRule ==
    merged # NoRecord =>
        LET p == SuffixStrippedParts(ai_metadata.suggested_filename)
            n == Len(p)
        IN extracted_author =
               IF n < 2 THEN None
               ELSE IF IsFourDigits(p[n]) THEN (IF n >= 3 THEN p[n - 1] ELSE None)
               ELSE p[n]

\* C9: with at least 2 parts the title is the leading parts, title-cased and joined
\* by spaces, without the trailing 2 parts (4-digit year last) or 1 part (any
\* other last part); with fewer than 2 parts there is no title and no author.
C9_TitleRule ==
    merged # NoRecord =>
        LET p == FilenameParts(ai_metadata.suggested_filename)
            n == Len(p)
        IN IF n < 2 THEN extracted_title = None /\ extracted_author = None
           ELSE extracted_title =
                    Title(Join(SubSeq(p, 1, n - (IF IsFourDigits(p[n]) THEN 2 ELSE 1)),
                               <<" ">>))

(***************************************************************************)
(* Claims about _clean_filename and the filename normalisation             *)
(* (SpecFilename)                                                          *)
(***************************************************************************)
\* C5: cleaning a cleaned filename changes nothing.
C5_CleanIdempotent == recleaned # None => recleaned = cleaned

C6_Allowed == Range(Lowers) \cup Digits \cup {"-", ".", "[", "]", "(", ")"}

\* C6: the normalised suggested_filename ends in ".pdf", is made of the allowed
\* characters only, and holds no path separator.
C6_SuggestedWellFormed ==
    suggested # None =>
        /\ EndsWith(suggested, DotPdf)
        /\ Range(suggested) \subseteq C6_Allowed
        /\ "/" \notin Range(suggested) /\ "\\" \notin Range(suggested)

C6_Witness ==
    /\ suggested # None
    /\ "!" \in Range(raw_filename) /\ "/" \in Range(raw_filename)
    /\ ~EndsWith(raw_filename, DotPdf)

(***************************************************************************)
(* Claims about the keyword normalisation (SpecKeywords)                   *)
(***************************************************************************)
\* ^#[a-z0-9]+$
MatchesHashForm(kw) ==
    /\ Len(kw) >= 2 /\ kw[1] = "#"
    /\ \A i \in 2..Len(kw) : kw[i] \in Range(Lowers) \cup Digits

\* C7 as stated: normalising is idempotent, keeps the number and order of the
\* keywords, and every output keyword matches ^#[a-z0-9]+$.
C7_HashFormAlways ==
    /\ kw_once # NoList =>
           /\ Len(kw_once) = Len(keywords)
           /\ \A i \in DOMAIN kw_once : MatchesHashForm(kw_once[i])
    /\ kw_twice # NoList => kw_twice = kw_once

\* C7 amended: normalising is idempotent, keeps the number and order of the
\* keywords, and every output keyword starts with "#" and holds no upper-case
\* letter.
C7_HashPrefixedLowercase ==
    /\ kw_once # NoList =>
           /\ Len(kw_once) = Len(keywords)
           /\ \A i \in DOMAIN kw_once :
                  /\ StartsWith(kw_once[i], <<"#">>)
                  /\ \A j \in DOMAIN kw_once[i] : ~IsUpper(kw_once[i][j])
                  /\ kw_once[i] \in {Lower(keywords[i]), <<"#">> \o Lower(keywords[i])}
    /\ kw_twice # NoList => kw_twice = kw_once

C7_Witness ==
    /\ kw_twice # NoList /\ Len(keywords) >= 2
    /\ \E i \in DOMAIN keywords : keywords[i] = <<>>
    /\ \E i \in DOMAIN keywords : " " \in Range(keywords[i])

(***************************************************************************)
(* Spec: the command line on one file (cli._process_single_file) or on a   *)
(* directory (cli._process_directory, pdf_extractor.process_directory)     *)
(***************************************************************************)
pureVars == <<fileVars, kwVars, mergeVars, probeVars, fieldVars>>
callVars == <<text_len, prompt_len, llm, a_pc, a_return>>

Init ==
    /\ mode \in {"single", "batch"}
    /\ skip_ai \in BOOLEAN
    /\ pdf_files \in UNION {[1..n -> FileKinds] : n \in 0..MaxFiles}
    /\ mode = "single" => Len(pdf_files) = 1
    /\ pc = IF mode = "single" THEN "s_start" ELSE "b_start"
    /\ idx = 1
    /\ ai_available = FALSE /\ probe_calls = 0 /\ text_calls = 0 /\ model_calls = 0
    /\ loc = NoLoc /\ results = <<>> /\ errors = <<>> /\ progress = 0
    /\ batch_result = NoRecord /\ exit_code = None
    /\ FileIdle /\ KwIdle /\ MergeIdle /\ AnalyzeIdle /\ ProbeIdle /\ FieldIdle

pdf_file == pdf_files[idx]

\* ---- batch mode ----

\* cli lines 204-208: no PDF in the directory
BatchNoFiles ==
    /\ pc = "b_start" /\ pdf_files = <<>>
    /\ exit_code' = <<"1">>
    /\ pc' = "done"
    /\ UNCHANGED <<mode, skip_ai, pdf_files, idx, ai_available, probe_calls, text_calls,
                   model_calls, loc, results, errors, progress, batch_result,
                   pureVars, analyzeVars>>

\* pdf_extractor lines 167-176: the lists, the one availability check
BatchCheckAI ==
    /\ pc = "b_start" /\ pdf_files # <<>>
    /\ results' = <<>> /\ errors' = <<>>
    /\ IF skip_ai
       THEN ai_available' = FALSE /\ UNCHANGED probe_calls
       ELSE /\ \E run1, run2 \in RunOutcomes :
                   ai_available' = is_ollama_available(run1, run2)
            /\ probe_calls' = probe_calls + 1
    /\ pc' = "b_loop"
    /\ UNCHANGED <<mode, skip_ai, pdf_files, idx, text_calls, model_calls, loc,
                   progress, batch_result, exit_code, pureVars, analyzeVars>>

\* lines 178-181: the next file's embedded metadata; an exception is caught at
\* line 216 and recorded at line 217
BatchExtractEmbedded ==
    /\ pc = "b_loop" /\ idx <= Len(pdf_files)
    /\ IF pdf_file.embed = "ok"
       THEN /\ loc' = [NoLoc EXCEPT !.embedded = pdf_file.meta,
                                    !.page_count = SamplePages]
            /\ pc' = "b_text"
            /\ UNCHANGED errors
       ELSE /\ errors' = RecordError(errors, idx, pdf_file.embed)
            /\ pc' = "b_advance"
            /\ UNCHANGED loc
    /\ UNCHANGED <<mode, skip_ai, pdf_files, idx, ai_available, probe_calls, text_calls,
                   model_calls, results, progress, batch_result, exit_code,
                   pureVars, analyzeVars>>

\* extract_text for every file as soon as AI is on, whatever the check said
BatchExtractTextUngated ==
    /\ pc = "b_text"
    /\ IF ~skip_ai
       THEN /\ text_calls' = text_calls + 1
            /\ IF pdf_file.text = "raise"
               THEN /\ errors' = RecordError(errors, idx, "extract_text")
                    /\ pc' = "b_advance"
                    /\ UNCHANGED loc
               ELSE /\ LET text == IF pdf_file.text = "text" THEN SampleText
                                                             ELSE BlankText
                       IN loc' = [loc EXCEPT
                              !.text_content = text,
                              !.pages_analyzed = PagesToRead(loc.page_count),
                              !.warnings = IF IsBlank(text)
                                           THEN Append(@, "No extractable text found")
                                           ELSE @]
                    /\ pc' = "b_analyze"
                    /\ UNCHANGED errors
       ELSE /\ pc' = "b_analyze"
            /\ UNCHANGED <<text_calls, loc, errors>>
    /\ UNCHANGED <<mode, skip_ai, pdf_files, idx, ai_available, probe_calls,
                   model_calls, results, progress, batch_result, exit_code,
                   pureVars, analyzeVars>>

\* lines 183-191: extract_text when AI is on and available; an exception of
\* extract_text is caught at line 216
BatchExtractText ==
    /\ pc = "b_text"
    /\ IF ~skip_ai /\ ai_available
       THEN /\ text_calls' = text_calls + 1
            /\ IF pdf_file.text = "raise"
               THEN /\ errors' = RecordError(errors, idx, "extract_text")
                    /\ pc' = "b_advance"
                    /\ UNCHANGED loc
               ELSE /\ LET text == IF pdf_file.text = "text" THEN SampleText
                                                             ELSE BlankText
                       IN loc' = [loc EXCEPT
                              !.text_content = text,
                              !.pages_analyzed = PagesToRead(loc.page_count),
                              !.warnings = IF IsBlank(text)
                                           THEN Append(@, "No extractable text found")
                                           ELSE @]
                    /\ pc' = "b_analyze"
                    /\ UNCHANGED errors
       ELSE /\ pc' = "b_analyze"
            /\ UNCHANGED <<text_calls, loc, errors>>
    /\ UNCHANGED <<mode, skip_ai, pdf_files, idx, ai_available, probe_calls,
                   model_calls, results, progress, batch_result, exit_code,
                   pureVars, analyzeVars>>

\* lines 193-214: analyze_content when there is text, the result, the merge, the
\* append; a model call that never returns leaves the loop in the call
BatchAnalyzeAssemble ==
    /\ pc = "b_analyze"
    /\ IF ai_available /\ ~IsBlank(loc.text_content)
       THEN \E o \in PipelineOutcomes :
               /\ model_calls' = model_calls + 1
               /\ IF o.kind = "hang"
                  THEN /\ pc' = "b_blocked"
                       /\ UNCHANGED <<a_stderr, results>>
                  ELSE /\ a_stderr' = a_stderr \o AnalyzeDiagnostics(o)
                       /\ results' = Append(results,
                              MergeIfPresent(MetadataResult(idx, loc, analyze_content(o))))
                       /\ pc' = "b_advance"
       ELSE /\ results' = Append(results, MetadataResult(idx, loc, NoRecord))
            /\ pc' = "b_advance"
            /\ UNCHANGED <<model_calls, a_stderr>>
    /\ UNCHANGED <<mode, skip_ai, pdf_files, idx, ai_available, probe_calls, text_calls,
                   loc, errors, progress, batch_result, exit_code, pureVars, callVars>>

\* line 219, and the loop's step to the next file
BatchAdvance ==
    /\ pc = "b_advance"
    /\ progress' = progress + 1
    /\ idx' = idx + 1
    /\ loc' = NoLoc
    /\ pc' = "b_loop"
    /\ UNCHANGED <<mode, skip_ai, pdf_files, ai_available, probe_calls, text_calls,
                   model_calls, results, errors, batch_result, exit_code,
                   pureVars, analyzeVars>>

\* lines 221-228
BatchReturn ==
    /\ pc = "b_loop" /\ idx > Len(pdf_files)
    /\ batch_result' = BatchResult(pdf_files, results, errors)
    /\ pc' = "b_output"
    /\ UNCHANGED <<mode, skip_ai, pdf_files, idx, ai_available, probe_calls, text_calls,
                   model_calls, loc, results, errors, progress, exit_code,
                   pureVars, analyzeVars>>

\* cli lines 214-226: print, export, return normally
BatchOutput ==
    /\ pc = "b_output"
    /\ exit_code' = <<"0">>
    /\ pc' = "done"
    /\ UNCHANGED <<mode, skip_ai, pdf_files, idx, ai_available, probe_calls, text_calls,
                   model_calls, loc, results, errors, progress, batch_result,
                   pureVars, analyzeVars>>

\* ---- single-file mode ----

\* cli lines 100-116: extension check (the inputs are .pdf files), embedded
\* metadata; FileNotFoundError, PermissionError and ValueError exit with 1
SingleExtractEmbedded ==
    /\ pc = "s_start"
    /\ IF pdf_file.embed = "ok"
       THEN /\ loc' = [NoLoc EXCEPT !.embedded = pdf_file.meta,
                                    !.page_count = SamplePages]
            /\ pc' = "s_text"
            /\ UNCHANGED exit_code
       ELSE /\ exit_code' = <<"1">>
            /\ pc' = "done"
            /\ UNCHANGED loc
    /\ UNCHANGED <<mode, skip_ai, pdf_files, idx, ai_available, probe_calls, text_calls,
                   model_calls, results, errors, progress, batch_result,
                   pureVars, analyzeVars>>

\* cli lines 118-142: extract_text inside its own try, then the result
SingleExtractText ==
    /\ pc = "s_text"
    /\ IF ~skip_ai
       THEN /\ text_calls' = text_calls + 1
            /\ LET l == IF pdf_file.text = "raise"
                        THEN [loc EXCEPT !.warnings = Append(@, "Text extraction failed")]
                        ELSE LET text == IF pdf_file.text = "text" THEN SampleText
                                                                   ELSE BlankText
                             IN [loc EXCEPT
                                    !.text_content = text,
                                    !.pages_analyzed = PagesToRead(loc.page_count),
                                    !.warnings =
                                        IF IsBlank(text)
                                        THEN Append(@, "No extractable text found - AI summary unavailable")
                                        ELSE @]
               IN /\ loc' = l
                  /\ results' = <<MetadataResult(idx, l, NoRecord)>>
       ELSE /\ results' = <<MetadataResult(idx, loc, NoRecord)>>
            /\ UNCHANGED <<text_calls, loc>>
    /\ pc' = "s_gate"
    /\ UNCHANGED <<mode, skip_ai, pdf_files, idx, ai_available, probe_calls,
                   model_calls, errors, progress, batch_result, exit_code,
                   pureVars, analyzeVars>>

\* cli lines 144-152, 169-173: the availability check, only with AI on and text
SingleGate ==
    /\ pc = "s_gate"
    /\ IF ~skip_ai /\ ~IsBlank(loc.text_content)
       THEN /\ probe_calls' = probe_calls + 1
            /\ \E run1, run2 \in RunOutcomes :
                   LET available == is_ollama_available(run1, run2)
                   IN /\ ai_available' = available
                      /\ IF available
                         THEN pc' = "s_analyze" /\ UNCHANGED results
                         ELSE /\ pc' = "s_output"
                              /\ results' = <<[results[1] EXCEPT !.warnings =
                                     Append(@, "Ollama not available or model not found")]>>
       ELSE /\ pc' = "s_output"
            /\ UNCHANGED <<probe_calls, ai_available, results>>
    /\ UNCHANGED <<mode, skip_ai, pdf_files, idx, text_calls, model_calls, loc, errors,
                   progress, batch_result, exit_code, pureVars, analyzeVars>>

\* cli lines 153-168: analyze_content, then the merge or the warning; a model
\* call that never returns leaves the handler in the call
SingleAnalyze ==
    /\ pc = "s_analyze"
    /\ \E o \in PipelineOutcomes :
           LET ai == analyze_content(o)
           IN /\ model_calls' = model_calls + 1
              /\ IF o.kind = "hang"
                 THEN /\ pc' = "s_blocked"
                      /\ UNCHANGED <<a_stderr, results>>
                 ELSE /\ a_stderr' = a_stderr \o AnalyzeDiagnostics(o)
                      /\ results' =
                           IF ai # NoRecord
                           THEN <<MergeIfPresent([results[1] EXCEPT !.ai_generated = ai])>>
                           ELSE <<[results[1] EXCEPT !.warnings =
                                   Append(@, "AI analysis failed - showing embedded metadata only")]>>
                      /\ pc' = "s_output"
    /\ UNCHANGED <<mode, skip_ai, pdf_files, idx, ai_available, probe_calls, text_calls,
                   loc, errors, progress, batch_result, exit_code, pureVars, callVars>>

\* cli lines 175-192: print, export, warnings, return normally
SingleOutput ==
    /\ pc = "s_output"
    /\ exit_code' = <<"0">>
    /\ pc' = "done"
    /\ UNCHANGED <<mode, skip_ai, pdf_files, idx, ai_available, probe_calls, text_calls,
                   model_calls, loc, results, errors, progress, batch_result,
                   pureVars, analyzeVars>>

Next ==
    \/ BatchNoFiles \/ BatchCheckAI \/ BatchExtractEmbedded \/ BatchExtractText
    \/ BatchAnalyzeAssemble \/ BatchAdvance \/ BatchReturn \/ BatchOutput
    \/ SingleExtractEmbedded \/ SingleExtractText \/ SingleGate \/ SingleAnalyze
    \/ SingleOutput

Spec == Init /\ [][Next]_vars

(***************************************************************************)
(* Claims about batch and single-file processing (Spec)                    *)
(***************************************************************************)
\* files of the batch whose try block has ended (a result or an error appended)
Handled == IF pc = "b_advance" THEN idx ELSE idx - 1

InResults(j) == {k \in DOMAIN results : results[k].file = j}
InErrors(j) == {k \in DOMAIN errors : errors[k].file = j}

\* an exception is raised in file j's pipeline
Raises(j) ==
    \/ pdf_files[j].embed # "ok"
    \/ ~skip_ai /\ ai_available /\ pdf_files[j].text = "raise"

\* C1: at every point of the loop the files handled so far are len(results) +
\* len(errors); the returned BatchResult has successful + failed = total_files =
\* len(files), len(results) = successful and len(errors) = failed.
C1_BatchCounts ==
    mode = "batch" =>
        /\ Len(results) + Len(errors) = Handled
        /\ batch_result # NoRecord =>
               /\ batch_result.successful + batch_result.failed = batch_result.total_files
               /\ batch_result.total_files = Len(pdf_files)
               /\ Len(batch_result.results) = batch_result.successful
               /\ Len(batch_result.errors) = batch_result.failed

C1_Witness ==
    /\ mode = "batch" /\ batch_result # NoRecord
    /\ ~skip_ai /\ ai_available
    /\ batch_result.successful >= 1 /\ batch_result.failed >= 1
    /\ batch_result.total_files = MaxFiles

\* C2: a file whose pipeline raises is recorded as exactly one error and no
\* result, any other handled file as exactly one result and no error; files not
\* yet handled are in neither list; the batch ends only after the last file, and
\* then with exit code 0.
C2_PerFileIsolation ==
    mode = "batch" =>
        /\ \A j \in DOMAIN pdf_files :
               IF j <= Handled
               THEN /\ Cardinality(InResults(j)) + Cardinality(InErrors(j)) = 1
                    /\ Raises(j) <=> InErrors(j) # {}
               ELSE InResults(j) = {} /\ InErrors(j) = {}
        /\ (pc \in {"b_output", "done"} /\ pdf_files # <<>>) => Handled = Len(pdf_files)
        /\ (exit_code # None /\ pdf_files # <<>>) => exit_code = <<"0">>

C2_Witness ==
    /\ mode = "batch" /\ pc = "done" /\ Len(pdf_files) = 3
    /\ pdf_files[1].embed # "ok"
    /\ Len(errors) = 1 /\ errors[1].file = 1
    /\ Len(results) = 2 /\ results[1].file = 2 /\ results[2].file = 3
    /\ exit_code = <<"0">>

\* the result carries the file's embedded metadata (non-empty values unchanged)
CarriesEmbedded(result, file) ==
    \A f \in DOMAIN file.meta :
        file.meta[f] \notin {None, <<>>} => result.embedded[f] = file.meta[f]

\* C3: in both modes a file whose embedded extraction succeeds yields a
\* MetadataResult carrying its embedded metadata, whatever the AI-side steps do:
\* it is never an error entry and the exit code stays 0.
C3_AIStrictlyAdditive ==
    /\ mode = "batch" =>
           \A j \in DOMAIN pdf_files :
               (j <= Handled /\ pdf_files[j].embed = "ok") =>
                   /\ InErrors(j) = {}
                   /\ \E k \in InResults(j) : CarriesEmbedded(results[k], pdf_files[j])
    /\ (mode = "single" /\ pc = "done" /\ pdf_files[1].embed = "ok") =>
           /\ exit_code = <<"0">>
           /\ Len(results) = 1 /\ CarriesEmbedded(results[1], pdf_files[1])

\* a batch result that is the file's embedded metadata as it was extracted
EmbeddedOnly(result) ==
    /\ result.ai_generated = NoRecord
    /\ result.pages_analyzed = 0
    /\ result.embedded = pdf_files[result.file].meta

\* C11: a batch makes one availability check, before its first file (none at all
\* with --no-ai or before the check), however many files it has; when the check
\* is false or AI is disabled no text is extracted, no model call is made and
\* every result is the file's embedded metadata as extracted: no merge,
\* ai_generated none, pages_analyzed 0.
C11_OneCheckPerBatch ==
    mode = "batch" =>
        /\ probe_calls = IF ~skip_ai /\ pdf_files # <<>> /\ pc # "b_start" THEN 1 ELSE 0
        /\ pc = "b_start" =>
               /\ idx = 1 /\ progress = 0 /\ results = <<>> /\ errors = <<>>
               /\ text_calls = 0 /\ model_calls = 0
        /\ (skip_ai \/ ~ai_available) =>
               /\ text_calls = 0 /\ model_calls = 0
               /\ loc.pages_analyzed = 0 /\ loc.text_content = <<>>
               /\ \A k \in DOMAIN results : EmbeddedOnly(results[k])

C11_Witness ==
    /\ mode = "batch" /\ pc = "done" /\ Len(pdf_files) = 3
    /\ ~skip_ai /\ ~ai_available /\ probe_calls = 1
    /\ \A j \in DOMAIN pdf_files : pdf_files[j].text = "text"
    /\ Len(results) = 3 /\ results[3].embedded.title = <<"T">>
    /\ \A k \in DOMAIN results : EmbeddedOnly(results[k])

\* cli line 167: the warning about a failed analysis
AnalysisFailedWarnings == {"AI analysis failed - showing embedded metadata only"}

HasFailureWarning(result) ==
    \E i \in DOMAIN result.warnings : result.warnings[i] \in AnalysisFailedWarnings

\* analyze_content was invoked for the result's file and returned none
AnalysisReturnedNone(result) ==
    /\ ~skip_ai /\ ai_available
    /\ pdf_files[result.file].text = "text"
    /\ result.ai_generated = NoRecord

\* C12: in both modes, the result of a file for which analyze_content was invoked
\* and returned none carries a warning about the failed analysis.
C12_FailureSurfacesAsWarning ==
    /\ mode = "batch" =>
           \A k \in DOMAIN results :
               AnalysisReturnedNone(results[k]) => HasFailureWarning(results[k])
    /\ (mode = "single" /\ pc \in {"s_output", "done"}) =>
           \A k \in DOMAIN results :
               AnalysisReturnedNone(results[k]) => HasFailureWarning(results[k])

PassThroughFields == {"creator", "producer", "creation_date", "modification_date"}

\* C15: in every result, merged or not, creator, producer, creation_date and
\* modification_date are the values extract_embedded_metadata returned for the
\* file, and a result whose embedded record differs from the extracted one has an
\* AI record: the merge ran only with ai_metadata present.
C15_PassThroughUntouched ==
    \A k \in DOMAIN results :
        LET extracted == pdf_files[results[k].file].meta
        IN /\ \A f \in PassThroughFields : results[k].embedded[f] = extracted[f]
           /\ results[k].ai_generated = NoRecord => results[k].embedded = extracted

C15_Witness ==
    /\ mode = "batch" /\ Len(results) = 2
    /\ results[1].ai_generated # NoRecord /\ results[2].ai_generated # NoRecord
    /\ results[1].embedded # pdf_files[1].meta /\ results[2].embedded # pdf_files[2].meta
    /\ results[1].embedded.creator = <<"W">> /\ results[1].embedded.producer = <<"P">>
    /\ results[1].embedded.creation_date = <<"D1">>
    /\ results[2].embedded.modification_date = <<"D2">>

\* C16: the model call is bounded: no run stops before the handler has returned,
\* so every analyze_content call comes back and a batch goes on to its
\* BatchResult and its exit.
C16_ModelCallBounded == pc = "done" \/ ENABLED Next

\* C17: in both modes extract_text and the model call run only after
\* is_ollama_available has returned true; with AI enabled and a check that
\* returned false there is no text extraction and no model call.
C17_GateBeforeAIWork ==
    /\ (text_calls > 0 \/ model_calls > 0) => (probe_calls > 0 /\ ai_available)
    /\ (~skip_ai /\ probe_calls > 0 /\ ~ai_available) =>
           (text_calls = 0 /\ model_calls = 0)

(***************************************************************************)
(* SpecProbe: is_ollama_available, one subprocess.run at a time            *)
(***************************************************************************)
\* the exceptions both probes catch (lines 24 and 51)
ProbeCaught == {"FileNotFoundError", "TimeoutExpired"}

\* stdout of "ollama list": nothing, the model g with its tag, another model
ListingSamples == {<<>>, <<"g", ":", "l">>, <<"x">>}

ModelNames == {<<"g">>, <<"g", ":", "l">>}

\* what one subprocess.run(["ollama", "list"], timeout=5) does: it returns with a
\* return code and the listing, or it raises (no executable, the 5 s timeout,
\* an executable that may not be run)
ProbeRuns ==
    {[kind |-> "returns", returncode |-> 0, stdout |-> out, error |-> ""] :
        out \in ListingSamples}
    \cup {[kind |-> "returns", returncode |-> 1, stdout |-> <<>>, error |-> ""]}
    \cup {[kind |-> "raises", returncode |-> 0, stdout |-> <<>>, error |-> e] :
            e \in ProbeCaught \cup {"PermissionError"}}

\* line 49: model_name.split(":")[0]
BaseModel(model_name) == Split(model_name, ":")[1]

\* an exception neither probe catches
Propagates(run) == run.kind = "raises" /\ run.error \notin ProbeCaught

\* the run as the probes see it (lines 17-25, 37-52), for a run that raises
\* nothing but what they catch
RunOutcome(run, model_name) ==
    CASE run.kind = "raises" /\ run.error = "FileNotFoundError" -> "absent"
      [] run.kind = "raises" /\ run.error = "TimeoutExpired" -> "timeout"
      [] run.kind = "returns" /\ run.returncode # 0 -> "nonzero"
      [] run.kind = "returns" /\ run.returncode = 0 ->
             IF Contains(run.stdout, BaseModel(model_name))
             THEN "rc0_listed" ELSE "rc0_unlisted"

InitProbe ==
    /\ p_model_name \in ModelNames
    /\ p_env \in [1..2 -> ProbeRuns]
    /\ p_count = 0 /\ p_running = FALSE /\ p_return = FALSE /\ p_pc = "start"
    /\ FileIdle /\ KwIdle /\ MergeIdle /\ AnalyzeIdle /\ CliIdle /\ FieldIdle

\* line 64, left operand: is_ollama_running()
ProbeRunning ==
    /\ p_pc = "start"
    /\ p_count' = p_count + 1
    /\ IF Propagates(p_env[p_count + 1])
       THEN p_pc' = "raised" /\ UNCHANGED p_running
       ELSE /\ p_running' = is_ollama_running(RunOutcome(p_env[p_count + 1], p_model_name))
            /\ p_pc' = "ran"
    /\ UNCHANGED <<p_model_name, p_env, p_return, fileVars, kwVars, mergeVars,
                   analyzeVars, cliVars, fieldVars>>

\* line 64, `and` with a false left operand: the right operand is not evaluated
ProbeShortCircuit ==
    /\ p_pc = "ran" /\ ~p_running
    /\ p_return' = FALSE
    /\ p_pc' = "returned"
    /\ UNCHANGED <<p_model_name, p_env, p_count, p_running, fileVars, kwVars, mergeVars,
                   analyzeVars, cliVars, fieldVars>>

\* line 64, right operand: is_model_available(model_name)
ProbeModel ==
    /\ p_pc = "ran" /\ p_running
    /\ p_count' = p_count + 1
    /\ IF Propagates(p_env[p_count + 1])
       THEN p_pc' = "raised" /\ UNCHANGED p_return
       ELSE /\ p_return' = is_model_available(RunOutcome(p_env[p_count + 1], p_model_name))
            /\ p_pc' = "returned"
    /\ UNCHANGED <<p_model_name, p_env, p_running, fileVars, kwVars, mergeVars,
                   analyzeVars, cliVars, fieldVars>>

NextProbe == ProbeRunning \/ ProbeShortCircuit \/ ProbeModel

SpecProbe == InitProbe /\ [][NextProbe]_vars

\* the run returned with return code 0
RunSucceeded(run) == run.kind = "returns" /\ run.returncode = 0

\* the run found no executable or timed out
RunAbsentOrTimedOut(run) ==
    run.kind = "raises" /\ run.error \in {"FileNotFoundError", "TimeoutExpired"}

\* C14: is_ollama_available returns true exactly when the first run succeeded and
\* the second run succeeded with the model's base name in its listing; a run
\* that finds no executable or times out makes it return false, not raise; the
\* second run is made only after a successful first one.
C14_BothProbesOrFalse ==
    /\ p_pc = "returned" =>
           /\ p_return <=>
                  /\ p_count = 2
                  /\ RunSucceeded(p_env[1]) /\ RunSucceeded(p_env[2])
                  /\ Contains(p_env[2].stdout, Split(p_model_name, ":")[1])
           /\ ~RunSucceeded(p_env[1]) => p_count = 1
    /\ p_count = 2 => RunSucceeded(p_env[1])
    /\ \A i \in 1..p_count :
           RunAbsentOrTimedOut(p_env[i]) => p_pc \in {"ran", "returned"}
    /\ (p_pc = "returned" /\ \E i \in 1..p_count : RunAbsentOrTimedOut(p_env[i])) =>
           p_return = FALSE

C14_Witness ==
    /\ p_pc = "returned" /\ p_return = FALSE /\ p_count = 1
    /\ p_env[1].error = "TimeoutExpired"
    /\ RunSucceeded(p_env[2]) /\ p_env[2].stdout = <<"g", ":", "l">>

(***************************************************************************)
(* SpecField: extract_embedded_metadata on a readable, non-encrypted       *)
(* document: the two dates, get_metadata_field for the five fields, the    *)
(* EmbeddedMetadata                                                        *)
(***************************************************************************)
\* hasattr(metadata, key) is false
NoAttr == <<"<no attribute>">>
\* variant not in metadata
NoKey == <<"<no key>">>
\* reading the attribute or the entry raises an exception
Raising == <<"<raises>">>

\* `if value:` for a value that is None or a string
Truthy(value) == value \notin {None, <<>>}

\* str.strip() of blanks
RECURSIVE Strip(_)
Strip(s) ==
    IF s # <<>> /\ Head(s) = " " THEN Strip(Tail(s)) ELSE RStrip(s, " ")

\* str.capitalize()
Capitalize(s) == IF s = <<>> THEN <<>> ELSE <<UpperChar(Head(s))>> \o Lower(Tail(s))

\* line 58: [f"/{key}", f"/{key.capitalize()}", key]
KeyVariants(key) == << <<"/">> \o key, <<"/">> \o Capitalize(key), key >>

\* lines 58-62: the loop over the variants; an entry whose reading raises ends
\* the call in the handler of line 63
RECURSIVE TryVariants(_, _)
TryVariants(dict, variants) ==
    IF variants = <<>> THEN None
    ELSE IF Head(variants) \notin DOMAIN dict THEN TryVariants(dict, Tail(variants))
    ELSE LET value == dict[Head(variants)]
         IN IF value = Raising THEN None
            ELSE IF Truthy(value) THEN Strip(value)
            ELSE TryVariants(dict, Tail(variants))

\* lines 48-64, for the attribute's outcome attr and the dictionary dict
get_metadata_field(attr, dict, key) ==
    IF attr = Raising THEN None
    ELSE IF attr # NoAttr /\ Truthy(attr) THEN Strip(attr)
    ELSE TryVariants(dict, KeyVariants(key))

\* lines 87-91: the keys of the five calls, in call order
FieldKeys ==
    << <<"t", "i", "t", "l", "e">>, <<"a", "u", "t", "h", "o", "r">>,
       <<"s", "u", "b", "j", "e", "c", "t">>, <<"c", "r", "e", "a", "t", "o", "r">>,
       <<"p", "r", "o", "d", "u", "c", "e", "r">> >>

\* what a document holds for one key: the attribute's outcome, and the entries
\* under /key, /Key and key (NoKey: no such entry)
FieldSources ==
    {[attr |-> <<"A">>, slots |-> <<NoKey, <<"C">>, NoKey>>],
     [attr |-> NoAttr, slots |-> <<NoKey, <<" ", "C">>, NoKey>>],
     [attr |-> None, slots |-> <<<<>>, <<"C">>, <<"K">>>>],
     [attr |-> Raising, slots |-> <<NoKey, <<"C">>, NoKey>>],
     [attr |-> NoAttr, slots |-> <<NoKey, NoKey, NoKey>>],
     [attr |-> <<" ">>, slots |-> <<<<"S">>, NoKey, NoKey>>],
     [attr |-> NoAttr, slots |-> <<Raising, NoKey, <<"K">>>>]}

\* the dictionary entries of a source for a key
DictOf(key, slots) ==
    LET vs == KeyVariants(key)
    IN [k \in {vs[i] : i \in {j \in 1..3 : slots[j] # NoKey}} |->
            slots[CHOOSE i \in 1..3 : vs[i] = k]]

\* what a document holds for a date: the attribute's outcome and the entry
\* under /CreationDate or /ModDate
DateSources ==
    {[attr |-> <<"D1">>, entry |-> NoKey], [attr |-> None, entry |-> <<"D2">>],
     [attr |-> Raising, entry |-> <<"D2">>]}

\* lines 67-75, 78-84: the value, and whether the handler ran
ParseDate(src) ==
    IF src.attr = Raising THEN [value |-> None, failed |-> TRUE]
    ELSE IF src.attr # NoAttr /\ Truthy(src.attr) THEN [value |-> src.attr, failed |-> FALSE]
    ELSE IF src.entry = NoKey THEN [value |-> None, failed |-> FALSE]
    ELSE IF src.entry = Raising THEN [value |-> None, failed |-> TRUE]
    ELSE [value |-> src.entry, failed |-> FALSE]

InitField ==
    /\ f_dates = <<>> /\ f_sources = <<>> /\ f_values = <<>>
    /\ f_creation_date = None /\ f_modification_date = None /\ f_warnings = <<>>
    /\ f_embedded = NoRecord /\ f_pc = "dates"
    /\ FileIdle /\ KwIdle /\ MergeIdle /\ AnalyzeIdle /\ CliIdle /\ ProbeIdle

\* lines 66-84
ParseDates ==
    /\ f_pc = "dates"
    /\ \E c, m \in DateSources :
           /\ f_dates' = <<c, m>>
           /\ f_creation_date' = ParseDate(c).value
           /\ f_modification_date' = ParseDate(m).value
           /\ f_warnings' =
                  (IF ParseDate(c).failed
                   THEN <<"Could not parse creation date">> ELSE <<>>)
                  \o (IF ParseDate(m).failed
                      THEN <<"Could not parse modification date">> ELSE <<>>)
    /\ f_pc' = "fields"
    /\ UNCHANGED <<f_sources, f_values, f_embedded, fileVars, kwVars, mergeVars,
                   analyzeVars, cliVars, probeVars>>

\* lines 87-91: the next get_metadata_field(key) call
GetField ==
    /\ f_pc = "fields" /\ Len(f_values) < Len(FieldKeys)
    /\ \E src \in FieldSources :
           LET key == FieldKeys[Len(f_values) + 1]
           IN /\ f_sources' = Append(f_sources, src)
              /\ f_values' = Append(f_values,
                     get_metadata_field(src.attr, DictOf(key, src.slots), key))
    /\ UNCHANGED <<f_dates, f_creation_date, f_modification_date, f_warnings, f_embedded,
                   f_pc, fileVars, kwVars, mergeVars, analyzeVars, cliVars, probeVars>>

\* lines 86-96
AssembleEmbedded ==
    /\ f_pc = "fields" /\ Len(f_values) = Len(FieldKeys)
    /\ f_embedded' =
           [title |-> f_values[1], author |-> f_values[2], subject |-> f_values[3],
            creator |-> f_values[4], producer |-> f_values[5],
            creation_date |-> f_creation_date,
            modification_date |-> f_modification_date]
    /\ f_pc' = "returned"
    /\ UNCHANGED <<f_dates, f_sources, f_values, f_creation_date, f_modification_date,
                   f_warnings, fileVars, kwVars, mergeVars, analyzeVars, cliVars,
                   probeVars>>

NextField == ParseDates \/ GetField \/ AssembleEmbedded

SpecField == InitField /\ [][NextField]_vars

\* a value that resolves a field: a non-empty string that was read
Resolves(v) == v \notin {NoAttr, NoKey, Raising, None, <<>>}

\* the value the fallback rule gives a field: the accessor's value, else the
\* first non-empty entry among /key, /Key, key, else none
FallbackValue(src) ==
    IF Resolves(src.attr) THEN Strip(src.attr)
    ELSE IF \E i \in 1..3 : Resolves(src.slots[i])
         THEN Strip(src.slots[CHOOSE i \in 1..3 :
                        /\ Resolves(src.slots[i])
                        /\ \A j \in 1..(i - 1) : ~Resolves(src.slots[j])])
         ELSE None

\* C13: each of the five fields has the value the fallback rule gives it from
\* its own accessor and entries (an accessor that is unavailable, empty or
\* raising falls back to the entries), whatever the other fields do; it is none
\* only when nothing resolves it, and the extraction returns the fields so read.
C13_FieldByFieldFallback ==
    /\ \A i \in DOMAIN f_values : f_values[i] = FallbackValue(f_sources[i])
    /\ f_pc = "returned" =>
           /\ f_embedded.title = f_values[1] /\ f_embedded.author = f_values[2]
           /\ f_embedded.subject = f_values[3] /\ f_embedded.creator = f_values[4]
           /\ f_embedded.producer = f_values[5]

====
